---- MODULE Spec2Model ----
(***************************************************************************)
(* ledger-lint-duplicate (src/main.go): the bucketer Ledger.toTxs and the  *)
(* duplicate finder findDuplicates, as state machines.                     *)
(*                                                                         *)
(*   Spec       findDuplicates on every transaction map of the bounds      *)
(*   SpecTwice  findDuplicates run twice on the same map                   *)
(*   SpecToTxs  Ledger.toTxs on every ledger of the bounds                 *)
(*                                                                         *)
(* A time.Time is a UTC midnight (time.Parse of "2006/01/02"), held as a   *)
(* day number.  A *Tx is a slot of a bucket's slice: [key, idx], idx       *)
(* 0-based as in the source.  Payee and Account are display strings that   *)
(* no control flow reads; they are left out of Tx.  Amounts are finite     *)
(* float64 values (no NaN key).                                            *)
(***************************************************************************)
EXTENDS Integers, Sequences, FiniteSets, TLC

\* ---------------------------------------------------------------- bounds
MaxPostings == 4
MaxTx == 2
MaxLedgerPostings == 3

\* time.Duration is an int64 of nanoseconds: Time.Sub saturates at
\* +-(1<<63 - 1) ns, 2562047 whole hours.
MaxDurationHours == 2562047

Amounts == {5, 42}
\* dates, as day numbers: 2021/01/01, 2021/01/02, 2021/01/03
Days == {0, 1, 2}
TagLists == {<<>>, <<"other", "notDup">>}
\* maxDuration, in hours (main passes 24 * days)
Windows == {0, 24}
IgnoredTags == {"notDup"}

VARIABLES
    ledger,        \* l.Transactions.Transaction
    p,             \* toTxs: index of the outer loop
    q,             \* toTxs: index of the inner loop
    date,          \* toTxs: the parsed date of transaction p
    txs,           \* map[float64][]Tx
    maxDuration,   \* findDuplicates parameter, hours
    ignoredTag,    \* findDuplicates parameter
    allDuplicates, \* findDuplicates result, [][]*Tx
    visited,       \* keys the range loop has been through
    key,           \* key of the bucket being walked
    i,             \* index of the walk
    duplicates,    \* the open chain, []*Tx
    lastInserted,  \* index of the open chain's last member, -1 if none
    pc,            \* control point
    calls,         \* history: the argument of every call of keep, in order
    eager,         \* the walk of the variant that flushes at every window miss
    input,         \* history: txs as passed to findDuplicates
    run,           \* 1 or 2: which run of findDuplicates this is
    first          \* the groups the first run returned

vars == <<ledger, p, q, date, txs, maxDuration, ignoredTag, allDuplicates,
          visited, key, i, duplicates, lastInserted, pc, calls, eager, input,
          run, first>>

NoKey == "none"

\* ------------------------------------------------------------ time.Time
Before(t, u) == t < u

\* t.Sub(u).Hours()
Hours(t, u) ==
    LET d == 24 * (t - u)
    IN  IF d > MaxDurationHours THEN MaxDurationHours
        ELSE IF d < -MaxDurationHours THEN -MaxDurationHours
        ELSE d

\* ----------------------------------------------------------------- find
findFirstOnly(val, slice) == slice # <<>> /\ Head(slice) = val

\* find: true on the first occurrence of val in slice
RECURSIVE find(_, _)
find(val, slice) ==
    IF slice = <<>> THEN FALSE
    ELSE IF Head(slice) = val THEN TRUE
    ELSE find(val, Tail(slice))

\* ------------------------------------------------------- findDuplicates
Ptr(k, idx) == [key |-> k, idx |-> idx]

Deref(m, ptr) == m[ptr.key][ptr.idx + 1]

keepAlways(m, tag, all, dups) == Append(all, dups)

\* the closure keep: allDuplicates after keep(duplicates)
keep(m, tag, all, dups) ==
    IF \E n \in 1..Len(dups) : ~find(tag, Deref(m, dups[n]).Tags)
    THEN Append(all, dups)
    ELSE all

\* sort.SliceStable with less = txs[i].Date.Before(txs[j].Date)
RECURSIVE InsertStable(_, _)
InsertStable(sorted, x) ==
    IF sorted = <<>> THEN <<x>>
    ELSE IF Before(x.Date, sorted[Len(sorted)].Date)
         THEN Append(InsertStable(SubSeq(sorted, 1, Len(sorted) - 1), x),
                     sorted[Len(sorted)])
         ELSE Append(sorted, x)

RECURSIVE InsertionSort(_)
InsertionSort(s) ==
    IF s = <<>> THEN <<>>
    ELSE InsertStable(InsertionSort(SubSeq(s, 1, Len(s) - 1)), s[Len(s)])

Unsorted(s) == s

Reversed(s) == [n \in 1..Len(s) |-> s[Len(s) + 1 - n]]

SliceStable(s) == InsertionSort(s)

WithinAlways(d, maxDur) == TRUE

\* d.Hours() <= maxDuration
WithinWindow(d, maxDur) == d <= maxDur

ExtendsWithoutGap(m, dups, last, endDate, maxDur) == last >= 0

\* lastInserted >= 0 && endDate.Sub(duplicates[lastInserted].Date).Hours() <= maxDuration
ExtendsChain(m, dups, last, endDate, maxDur) ==
    /\ last >= 0
    /\ Hours(endDate, Deref(m, dups[last + 1]).Date) <= maxDur

AppendPrevCur(dups, k, idx) == dups \o <<Ptr(k, idx - 1), Ptr(k, idx)>>

\* append(duplicates, &txs[i])
AppendCur(dups, k, idx) == Append(dups, Ptr(k, idx))

\* []*Tx{&txs[i-1], &txs[i]}
NewChain(k, idx) == <<Ptr(k, idx - 1), Ptr(k, idx)>>

\* The walk's state as a record: the open chain, lastInserted, allDuplicates,
\* the history of keep's arguments, and the log.Fatal reached ("" if none).
WalkState(dups, last, all, hist, fatal) ==
    [duplicates |-> dups, lastInserted |-> last, allDuplicates |-> all,
     calls |-> hist, fatal |-> fatal]

\* w after keep(duplicates)
Flush(m, tag, w) ==
    [w EXCEPT !.allDuplicates = keep(m, tag, w.allDuplicates, w.duplicates),
              !.calls = Append(w.calls, w.duplicates)]

\* One iteration of "for i := 1; i < len(txs); i++" on the sorted bucket m[k].
WalkStep(m, k, w, idx, maxDur, tag) ==
    LET endDate == m[k][idx + 1].Date
        d == Hours(m[k][idx + 1].Date, m[k][idx].Date)
    IN  IF WithinWindow(d, maxDur)
        THEN IF d < 0
             THEN [w EXCEPT !.fatal = "negative duration 1"]
             ELSE IF ExtendsChain(m, w.duplicates, w.lastInserted, endDate, maxDur)
                  THEN IF Hours(endDate, Deref(m, w.duplicates[w.lastInserted + 1]).Date) < 0
                       THEN [w EXCEPT !.fatal = "negative duration 2"]
                       ELSE [w EXCEPT !.duplicates = AppendCur(w.duplicates, k, idx),
                                      !.lastInserted = w.lastInserted + 1]
                  ELSE [Flush(m, tag, w) EXCEPT !.duplicates = NewChain(k, idx),
                                                !.lastInserted = 1]
        ELSE w

EndKeepNothing(m, tag, w) == w

\* keep(duplicates) after the walk
EndBucketFlush(m, tag, w) == Flush(m, tag, w)

EmptyWalk == WalkState(<<>>, -1, <<>>, <<>>, "")

\* the walk of the sorted bucket m[k], from index idx to its end
RECURSIVE WalkFrom(_, _, _, _, _, _)
WalkFrom(m, k, w, idx, maxDur, tag) ==
    IF idx >= Len(m[k]) THEN w
    ELSE WalkFrom(m, k, WalkStep(m, k, w, idx, maxDur, tag), idx + 1, maxDur, tag)

\* the body of the range loop for bucket k alone: the groups it adds
FindInBucket(m, k, maxDur, tag) ==
    IF Len(m[k]) <= 1 THEN <<>>
    ELSE LET sorted == [m EXCEPT ![k] = SliceStable(@)]
         IN  EndBucketFlush(sorted, tag,
                 WalkFrom(sorted, k, EmptyWalk, 1, maxDur, tag)).allDuplicates

\* The variant that flushes and resets the open chain at every window miss.
EagerStep(m, k, w, idx, maxDur, tag) ==
    LET d == Hours(m[k][idx + 1].Date, m[k][idx].Date)
    IN  IF WithinWindow(d, maxDur)
        THEN WalkStep(m, k, w, idx, maxDur, tag)
        ELSE [Flush(m, tag, w) EXCEPT !.duplicates = <<>>, !.lastInserted = -1]

RECURSIVE EagerFrom(_, _, _, _, _, _)
EagerFrom(m, k, w, idx, maxDur, tag) ==
    IF idx >= Len(m[k]) THEN w
    ELSE EagerFrom(m, k, EagerStep(m, k, w, idx, maxDur, tag), idx + 1, maxDur, tag)

EagerInBucket(m, k, maxDur, tag) ==
    IF Len(m[k]) <= 1 THEN <<>>
    ELSE LET sorted == [m EXCEPT ![k] = SliceStable(@)]
         IN  Flush(sorted, tag,
                 EagerFrom(sorted, k, EmptyWalk, 1, maxDur, tag)).allDuplicates

\* ----------------------------------------------------------------- inputs
Shapes == Days \X TagLists

MkTx(shape, amount, pos) ==
    [Date |-> shape[1], Position |-> pos, Amount |-> amount, Tags |-> shape[2]]

\* The map toTxs builds from a ledger whose transactions have one posting each,
\* those of amount 5 first: s5 and s42 are the (date, tags) of the two buckets.
BuildMap(s5, s42) ==
    [a \in {b \in Amounts : IF b = 5 THEN s5 # <<>> ELSE s42 # <<>>} |->
        IF a = 5
        THEN [n \in 1..Len(s5) |-> MkTx(s5[n], a, n - 1)]
        ELSE [n \in 1..Len(s42) |-> MkTx(s42[n], a, Len(s5) + n - 1)]]

Init ==
    /\ \E n5 \in 0..MaxPostings :
         \E n42 \in 0..(MaxPostings - n5) :
            \E s5 \in [1..n5 -> Shapes], s42 \in [1..n42 -> Shapes] :
                txs = BuildMap(s5, s42)
    /\ maxDuration \in Windows
    /\ ignoredTag \in IgnoredTags
    /\ input = txs
    /\ ledger = <<>>
    /\ p = 0
    /\ q = 0
    /\ date = 0
    /\ allDuplicates = <<>>
    /\ visited = {}
    /\ key = NoKey
    /\ i = 0
    /\ duplicates = <<>>
    /\ lastInserted = -1
    /\ pc = "range"
    /\ calls = <<>>
    /\ eager = EmptyWalk
    /\ run = 1
    /\ first = <<>>

\* ---------------------------------------------------------------- actions
toTxsVars == <<ledger, p, q, date>>

\* "for _, txs := range txs" reaches a bucket with len(txs) <= 1: continue
SkipBucket ==
    /\ pc = "range"
    /\ \E k \in (DOMAIN txs) \ visited :
        /\ Len(txs[k]) <= 1
        /\ visited' = visited \cup {k}
    /\ UNCHANGED <<toTxsVars, txs, maxDuration, ignoredTag, allDuplicates, key, i,
                   duplicates, lastInserted, pc, calls, eager, input, run, first>>

\* the range loop reaches a bucket of 2 or more: sort it in place, start the walk
SortBucket ==
    /\ pc = "range"
    /\ \E k \in (DOMAIN txs) \ visited :
        /\ Len(txs[k]) > 1
        /\ txs' = [txs EXCEPT ![k] = SliceStable(@)]
        /\ key' = k
    /\ duplicates' = <<>>
    /\ lastInserted' = -1
    /\ i' = 1
    /\ eager' = [eager EXCEPT !.duplicates = <<>>, !.lastInserted = -1]
    /\ pc' = "walk"
    /\ UNCHANGED <<toTxsVars, maxDuration, ignoredTag, allDuplicates, visited,
                   calls, input, run, first>>

\* one iteration of the walk
Walk ==
    /\ pc = "walk"
    /\ i < Len(txs[key])
    /\ LET w == WalkStep(txs, key,
                         WalkState(duplicates, lastInserted, allDuplicates, calls, ""),
                         i, maxDuration, ignoredTag)
       IN  /\ duplicates' = w.duplicates
           /\ lastInserted' = w.lastInserted
           /\ allDuplicates' = w.allDuplicates
           /\ calls' = w.calls
           /\ pc' = IF w.fatal = "" THEN "walk" ELSE w.fatal
    /\ eager' = EagerStep(txs, key, eager, i, maxDuration, ignoredTag)
    /\ i' = i + 1
    /\ UNCHANGED <<toTxsVars, txs, maxDuration, ignoredTag, visited, key, input,
                   run, first>>

\* the walk is over: keep(duplicates), back to the range loop
EndBucket ==
    /\ pc = "walk"
    /\ i >= Len(txs[key])
    /\ LET w == EndBucketFlush(txs, ignoredTag,
                    WalkState(duplicates, lastInserted, allDuplicates, calls, ""))
       IN  /\ allDuplicates' = w.allDuplicates
           /\ calls' = w.calls
    /\ eager' = Flush(txs, ignoredTag, eager)
    /\ visited' = visited \cup {key}
    /\ key' = NoKey
    /\ duplicates' = <<>>
    /\ lastInserted' = -1
    /\ i' = 0
    /\ pc' = "range"
    /\ UNCHANGED <<toTxsVars, txs, maxDuration, ignoredTag, input, run, first>>

\* the range loop is over: return allDuplicates
Return ==
    /\ pc = "range"
    /\ visited = DOMAIN txs
    /\ pc' = "done"
    /\ UNCHANGED <<toTxsVars, txs, maxDuration, ignoredTag, allDuplicates, visited,
                   key, i, duplicates, lastInserted, calls, eager, input, run, first>>

Next == SkipBucket \/ SortBucket \/ Walk \/ EndBucket \/ Return

Spec == Init /\ [][Next]_vars

\* ------------------------------------------------------------- two runs
\* what a caller sees of a result: the Tx each pointer of each group points to
Snapshot(m, all) ==
    [g \in 1..Len(all) |-> [n \in 1..Len(all[g]) |-> Deref(m, all[g][n])]]

\* findDuplicates is called again with the same arguments: the same map, whose
\* buckets the first run sorted in place
Rerun ==
    /\ pc = "done"
    /\ run = 1
    /\ run' = 2
    /\ first' = Snapshot(txs, allDuplicates)
    /\ input' = txs
    /\ allDuplicates' = <<>>
    /\ visited' = {}
    /\ calls' = <<>>
    /\ eager' = EmptyWalk
    /\ pc' = "range"
    /\ UNCHANGED <<toTxsVars, txs, maxDuration, ignoredTag, key, i, duplicates,
                   lastInserted>>

NextTwice == SkipBucket \/ SortBucket \/ Walk \/ EndBucket \/ Return \/ Rerun

SpecTwice == Init /\ [][NextTwice]_vars

\* ---------------------------------------------------------------- toTxs
\* the <date> texts of the ledgers: two dates in the layout, one that is not
DateTexts == {"2021/01/01", "2021/01/02", "01-02-2021"}

\* time.Parse("2006/01/02", text): the day number, or an error
timeParse(text) ==
    CASE text = "2021/01/01" -> [err |-> FALSE, t |-> 0]
      [] text = "2021/01/02" -> [err |-> FALSE, t |-> 1]
      [] OTHER -> [err |-> TRUE, t |-> 0]

RECURSIVE Sum(_)
Sum(s) == IF s = <<>> THEN 0 ELSE Head(s) + Sum(Tail(s))

\* A ledger of n transactions: heads[t] is the (date text, tags) of transaction
\* t, counts[t] the number of its postings, flat the amounts of all the
\* postings in document order.
MkLedger(heads, counts, flat) ==
    [t \in 1..Len(heads) |->
        [Date |-> heads[t][1],
         Tags |-> heads[t][2],
         Postings |-> SubSeq(flat, Sum(SubSeq(counts, 1, t - 1)) + 1,
                             Sum(SubSeq(counts, 1, t)))]]

InitToTxs ==
    /\ \E n \in 0..MaxTx :
         \E heads \in [1..n -> DateTexts \X TagLists],
            counts \in [1..n -> 0..MaxLedgerPostings] :
            /\ Sum(counts) <= MaxLedgerPostings
            /\ \E flat \in [1..Sum(counts) -> Amounts] :
                 ledger = MkLedger(heads, counts, flat)
    /\ p = 0
    /\ q = 0
    /\ date = 0
    /\ txs = << >>
    /\ pc = "transactions"
    /\ maxDuration = 0
    /\ ignoredTag = ""
    /\ input = << >>
    /\ allDuplicates = <<>>
    /\ visited = {}
    /\ key = NoKey
    /\ i = 0
    /\ duplicates = <<>>
    /\ lastInserted = -1
    /\ calls = <<>>
    /\ eager = EmptyWalk
    /\ run = 1
    /\ first = <<>>

findVars == <<maxDuration, ignoredTag, allDuplicates, visited, key, i, duplicates,
              lastInserted, calls, eager, input, run, first>>

AddInFront(m, amount, tx) ==
    IF amount \in DOMAIN m
    THEN [m EXCEPT ![amount] = <<tx>> \o @]
    ELSE [a \in (DOMAIN m) \cup {amount} |-> IF a = amount THEN <<tx>> ELSE m[a]]

\* subTxs, exists := txs[amount]; append to the bucket or start it
AddToBucket(m, amount, tx) ==
    IF amount \in DOMAIN m
    THEN [m EXCEPT ![amount] = Append(@, tx)]
    ELSE [a \in (DOMAIN m) \cup {amount} |-> IF a = amount THEN <<tx>> ELSE m[a]]

\* Tx{Date: date, Position: p, Amount: amount, Tags: tags}, tags a copy
NewTx(d, pos, amount, tags) ==
    [Date |-> d, Position |-> pos, Amount |-> amount,
     Tags |-> [n \in 1..Len(tags) |-> tags[n]]]

\* the outer loop reaches transaction p: parse its date, log.Fatal on an error
ParseDate ==
    /\ pc = "transactions"
    /\ p < Len(ledger)
    /\ LET r == timeParse(ledger[p + 1].Date)
       IN  IF r.err
           THEN /\ pc' = "fatal date"
                /\ UNCHANGED <<date, q>>
           ELSE /\ date' = r.t
                /\ q' = 0
                /\ pc' = "postings"
    /\ UNCHANGED <<ledger, p, txs, findVars>>

\* the inner loop: posting q of transaction p goes to the bucket of its amount
AddPosting ==
    /\ pc = "postings"
    /\ q < Len(ledger[p + 1].Postings)
    /\ LET amount == ledger[p + 1].Postings[q + 1]
           tx == NewTx(date, p, amount, ledger[p + 1].Tags)
       IN  txs' = AddToBucket(txs, amount, tx)
    /\ q' = q + 1
    /\ UNCHANGED <<ledger, p, date, pc, findVars>>

\* the inner loop is over: next transaction
EndTx ==
    /\ pc = "postings"
    /\ q >= Len(ledger[p + 1].Postings)
    /\ p' = p + 1
    /\ pc' = "transactions"
    /\ UNCHANGED <<ledger, q, date, txs, findVars>>

\* the outer loop is over: return txs
ReturnTxs ==
    /\ pc = "transactions"
    /\ p >= Len(ledger)
    /\ pc' = "returned"
    /\ UNCHANGED <<ledger, p, q, date, txs, findVars>>

NextToTxs == ParseDate \/ AddPosting \/ EndTx \/ ReturnTxs

SpecToTxs == InitToTxs /\ [][NextToTxs]_vars

\* ================================================================ claims
\* the Tx member n of chain c points to
Member(c, n) == Deref(txs, c[n])

\* hours from member n to member n + 1 of chain c
Gap(c, n) == Hours(Member(c, n + 1).Date, Member(c, n).Date)

Tagged(tx) == \E n \in 1..Len(tx.Tags) : tx.Tags[n] = ignoredTag

HasUntagged(c) == \E n \in 1..Len(c) : ~Tagged(Member(c, n))

InChain(c, ptr) == \E n \in 1..Len(c) : c[n] = ptr

\* hours between the neighbours j and j + 1 (1-based) of bucket k are in the window
Close(k, j) == Hours(txs[k][j + 1].Date, txs[k][j].Date) <= maxDuration

\* the groups of all that come from bucket a
OfBucket(groups, a) ==
    LET FromA(g) == g # <<>> /\ g[1].Amount = a
    IN  SelectSeq(groups, FromA)

\* C1: every group in allDuplicates has at least 2 members, and all its members
\* have the same amount.
C1_GroupsOfTwoOrMoreSameAmount ==
    \A g \in 1..Len(allDuplicates) :
        /\ Len(allDuplicates[g]) >= 2
        /\ \A a, b \in 1..Len(allDuplicates[g]) :
            Member(allDuplicates[g], a).Amount = Member(allDuplicates[g], b).Amount

\* groups of two buckets were returned
C1_Witness ==
    /\ pc = "done"
    /\ \E g, h \in 1..Len(allDuplicates) :
        Member(allDuplicates[g], 1).Amount # Member(allDuplicates[h], 1).Amount

\* C2: in every group the dates ascend, and two consecutive members are at most
\* maxDuration hours apart (the first and the last may be further apart).
C2_AscendingWithinWindow ==
    \A g \in 1..Len(allDuplicates) :
        \A n \in 1..(Len(allDuplicates[g]) - 1) :
            /\ ~Before(Member(allDuplicates[g], n + 1).Date,
                       Member(allDuplicates[g], n).Date)
            /\ Gap(allDuplicates[g], n) <= maxDuration

\* a returned group whose first and last members are further apart than the window
C2_Witness ==
    /\ pc = "done"
    /\ \E g \in 1..Len(allDuplicates) :
        /\ Len(allDuplicates[g]) = 3
        /\ Gap(allDuplicates[g], 1) > 0
        /\ Hours(Member(allDuplicates[g], 3).Date,
                 Member(allDuplicates[g], 1).Date) > maxDuration

\* C3: the groups in allDuplicates are exactly the chains passed to keep that
\* have a member without ignoredTag, each whole and in the order of the calls.
C3_EmittedIffSomeUntagged ==
    allDuplicates = SelectSeq(calls, HasUntagged)

\* one chain was dropped (all its members tagged), one with a tagged member emitted
C3_Witness ==
    /\ pc = "done"
    /\ \E c \in 1..Len(calls) : calls[c] # <<>> /\ ~HasUntagged(calls[c])
    /\ \E g \in 1..Len(allDuplicates) :
        \E n \in 1..Len(allDuplicates[g]) : Tagged(Member(allDuplicates[g], n))

\* C4 (as stated): a second run on the same map returns the same groups in the
\* same order, groups of different buckets included.
C4_SameGroupsSameOrder ==
    (run = 2 /\ pc = "done") => Snapshot(txs, allDuplicates) = first

\* C4 (amended): a second run on the same map returns, for each bucket, the same
\* groups in the same order; only the order between buckets may differ.
C4_SameGroupsPerBucket ==
    (run = 2 /\ pc = "done") =>
        /\ Len(allDuplicates) = Len(first)
        /\ \A a \in Amounts :
            OfBucket(Snapshot(txs, allDuplicates), a) = OfBucket(first, a)

\* the two runs returned the groups of two buckets in different orders
C4_Witness ==
    /\ run = 2
    /\ pc = "done"
    /\ Len(first) = 2
    /\ first[1][1].Amount # first[2][1].Amount
    /\ Snapshot(txs, allDuplicates) # first

\* C5: no slot is twice in the chains passed to keep and the open chain taken
\* together, nor twice in the groups of allDuplicates.
Distinct(chains) ==
    \A c, d \in 1..Len(chains) :
        \A n \in 1..Len(chains[c]), o \in 1..Len(chains[d]) :
            chains[c][n] = chains[d][o] => (c = d /\ n = o)

C5_GroupsDoNotOverlap ==
    /\ Distinct(Append(calls, duplicates))
    /\ Distinct(allDuplicates)

\* a new chain [prev, cur] was started in a bucket that has a chain flushed before
C5_Witness ==
    /\ pc = "walk"
    /\ Len(duplicates) = 2
    /\ \E g \in 1..Len(allDuplicates) : allDuplicates[g][1].key = key

\* C7: when findDuplicates returns, two neighbours of a sorted bucket that are in
\* the window are together in exactly one chain passed to keep, two that are not
\* are together in none, a chain with an untagged member is exactly one returned
\* group, and a bucket with no two neighbours in the window (or fewer than 2
\* transactions) has given no chain and no group.
C7_ChainsMaximalAndComplete ==
    pc = "done" =>
        /\ \A k \in DOMAIN txs :
            \A j \in 1..(Len(txs[k]) - 1) :
                LET together == {c \in 1..Len(calls) :
                                    /\ InChain(calls[c], Ptr(k, j - 1))
                                    /\ InChain(calls[c], Ptr(k, j))}
                IN  IF Close(k, j) THEN Cardinality(together) = 1
                    ELSE together = {}
        /\ \A c \in 1..Len(calls) :
            (calls[c] # <<>> /\ HasUntagged(calls[c])) =>
                Cardinality({g \in 1..Len(allDuplicates) :
                                allDuplicates[g] = calls[c]}) = 1
        /\ \A k \in DOMAIN txs :
            (\A j \in 1..(Len(txs[k]) - 1) : ~Close(k, j)) =>
                /\ \A c \in 1..Len(calls) : calls[c] = <<>> \/ calls[c][1].key # k
                /\ \A g \in 1..Len(allDuplicates) : allDuplicates[g][1].key # k

\* one bucket gave two chains, the second by the flush after the walk, with
\* two neighbours out of the window between them
C7_Witness ==
    /\ pc = "done"
    /\ \E c, d \in 1..Len(calls) :
        /\ c # d
        /\ calls[c] # <<>>
        /\ calls[d] # <<>>
        /\ calls[c][1].key = calls[d][1].key
        /\ \E j \in 1..(Len(txs[calls[c][1].key]) - 1) : ~Close(calls[c][1].key, j)

\* C8: neither log.Fatal of findDuplicates is reached, and at every step of the
\* walk cur is not before its predecessor nor before the open chain's last member.
C8_NoNegativeDuration ==
    /\ pc \notin {"negative duration 1", "negative duration 2"}
    /\ (pc = "walk" /\ i < Len(txs[key])) =>
        /\ Hours(txs[key][i + 1].Date, txs[key][i].Date) >= 0
        /\ lastInserted >= 0 =>
            Hours(txs[key][i + 1].Date, Member(duplicates, lastInserted + 1).Date) >= 0

\* the walk has a chain open in a bucket that was passed out of date order
C8_Witness ==
    /\ pc = "walk"
    /\ lastInserted >= 0
    /\ i < Len(txs[key])
    /\ \E j \in 1..(Len(input[key]) - 1) :
        Before(input[key][j + 1].Date, input[key][j].Date)

\* C9 (as stated): there is an input for which the groups of a bucket differ from
\* those of the variant that flushes and resets the open chain at every miss
\* (looked for, among all the buckets of the bounds, once a run has returned).
C9_FlushTimingChangesGroups ==
    pc = "done" =>
    \E n \in 1..MaxPostings :
        \E s \in [1..n -> Shapes] :
            \E maxDur \in Windows, tag \in IgnoredTags :
                FindInBucket(BuildMap(s, <<>>), 5, maxDur, tag)
                    # EagerInBucket(BuildMap(s, <<>>), 5, maxDur, tag)

\* C9 (amended): the open chain stays open across a window miss, and whenever a
\* bucket is finished the groups are those of the variant that flushes and
\* resets at every miss.
C9_FlushTimingChangesNothing ==
    /\ pc \in {"range", "done"} => allDuplicates = eager.allDuplicates
    /\ pc = "walk" => eager.allDuplicates = SelectSeq(eager.calls, HasUntagged)

\* the open chain is still open after a miss, which the variant has flushed
C9_Witness ==
    /\ pc = "walk"
    /\ duplicates # <<>>
    /\ eager.duplicates = <<>>
    /\ Len(eager.allDuplicates) > Len(allDuplicates)

\* C10: lastInserted is -1 with no open chain or the index of its last member;
\* the open chain, every chain passed to keep and every group are runs of
\* neighbouring slots of one bucket, so a member's predecessor in its chain is
\* its predecessor in the bucket.
Contiguous(c) ==
    \A n \in 1..(Len(c) - 1) : c[n + 1] = Ptr(c[n].key, c[n].idx + 1)

C10_ChainsAreContiguousRuns ==
    /\ \/ lastInserted = -1 /\ duplicates = <<>>
       \/ lastInserted >= 0 /\ lastInserted = Len(duplicates) - 1
    /\ Contiguous(duplicates)
    /\ \A c \in 1..Len(calls) : Contiguous(calls[c])
    /\ \A g \in 1..Len(allDuplicates) : Contiguous(allDuplicates[g])
    /\ (pc = "walk" /\ duplicates # <<>>) =>
        /\ duplicates[Len(duplicates)].key = key
        /\ duplicates[Len(duplicates)].idx < i

\* after a miss, cur is in the window of its predecessor while a chain is open
C10_Witness ==
    /\ pc = "walk"
    /\ i < Len(txs[key])
    /\ duplicates # <<>>
    /\ duplicates[Len(duplicates)].idx < i - 1
    /\ Close(key, i)

\* ---------------------------------------------------------- toTxs claims
\* the Tx of every posting of the first n transactions, in document order
RECURSIVE Flat(_, _)
Flat(l, n) ==
    IF n = 0 THEN <<>>
    ELSE Flat(l, n - 1) \o
         [o \in 1..Len(l[n].Postings) |->
            [Date |-> timeParse(l[n].Date).t, Position |-> n - 1,
             Amount |-> l[n].Postings[o], Tags |-> l[n].Tags]]

\* C6: the map toTxs returns has one bucket per amount of the ledger, each the
\* postings of that amount in document order; an empty ledger gives an empty map.
C6_BucketsPartitionByAmount ==
    pc = "returned" =>
        LET all == Flat(ledger, Len(ledger))
        IN  /\ DOMAIN txs = {all[n].Amount : n \in 1..Len(all)}
            /\ \A a \in DOMAIN txs :
                LET IsA(tx) == tx.Amount = a
                IN  txs[a] = SelectSeq(all, IsA)
            /\ ledger = <<>> => DOMAIN txs = {}

\* two buckets, one of them with postings of two transactions
C6_Witness ==
    /\ pc = "returned"
    /\ Cardinality(DOMAIN txs) = 2
    /\ \E a \in DOMAIN txs :
        Len(txs[a]) = 2 /\ txs[a][1].Position # txs[a][2].Position

====
